---- MODULE Spec2Model ----
(***************************************************************************)
(* IntersectionFinder.find_intersections_by_scan (src/main.py).            *)
(*                                                                         *)
(* Floats are modelled by a lattice of integers: abscissae are points of   *)
(* -MaxX..MaxX, function values are integers, and tol is an integer in the *)
(* same unit as the abscissae.  func1 and func2 are value tables over the  *)
(* lattice; every call of a Python callable may also raise, which is a     *)
(* nondeterministic outcome of each call.  One call of the method is one   *)
(* behaviour: pc walks call -> eval -> pairs -> done | raised.             *)
(***************************************************************************)
EXTENDS Integers, Sequences, FiniteSets

\* ---- bounds of the model
MaxX == 1
MaxPoints == 3
MaxTol == 2
MaxCoef == 3

Points == -MaxX..MaxX

Abs(v) == IF v < 0 THEN -v ELSE v

\* The callables handed to __init__: func1 a polynomial of degree <= 2,
\* func2 a constant.
Func1Set ==
    {[x \in Points |-> a*x*x + b*x + c] : a \in 0..1, b \in -MaxCoef..MaxCoef, c \in -1..1}

Func2Set == {[x \in Points |-> d] : d \in 0..1}

\* A bound on |func1(x) - func2(x)| over the lattice, and np.nan encoded as
\* an integer no difference can take.
MaxAbs == MaxX*MaxX + MaxCoef*MaxX + 2

NaN == MaxAbs + 1

VARIABLES
    func1,          \* self.func1
    func2,          \* self.func2
    domain,         \* the argument (xmin, xmax)
    num_points,     \* the argument num_points
    tol,            \* the argument tol
    x_grid,         \* np.linspace(xmin, xmax, num_points)
    f_values,       \* the values of _equation on the grid, NaN where it raised
    intersections,  \* the accumulated list of (x_root, y_root)
    i,              \* the pair loop's index, 1-based: pair (x_grid[i], x_grid[i+1])
    brentq_calls,   \* how many times brentq was invoked
    pc,             \* "call", "eval", "pairs", "done", "raised"
    exc             \* the exception that left the call, "none" if none

vars == <<func1, func2, domain, num_points, tol, x_grid, f_values,
          intersections, i, brentq_calls, pc, exc>>

xmin == domain[1]

xmax == domain[2]

\* ---- pure helpers

\* _equation on a successful evaluation.
Equation(x) == func1[x] - func2[x]

\* np.linspace(start, stop, num) for num >= 0: num evenly spaced samples, the
\* first at start and the last at stop, each rounded to the lattice.
Linspace(start, stop, num) ==
    [k \in 1..num |->
        IF num = 1 THEN start
        ELSE start + ((k - 1) * (stop - start)) \div (num - 1)]

IsNan(v) == v = NaN

\* The uniqueness test comparing the candidate with the stored y instead of
\* the stored x.
IsDuplicateByY(x_root, inter, t) ==
    \E k \in 1..Len(inter) : Abs(x_root - inter[k][2]) < t

\* The uniqueness test of line 73.
IsDuplicate(x_root, inter, t) ==
    \E k \in 1..Len(inter) : Abs(x_root - inter[k][1]) < t

\* The values brentq(f, a, b, xtol) can return: a point of the bracket where
\* f is zero, or the end xcur of a sign-changing sub-bracket [xcur, xblk]
\* narrower than xtol, xcur being the end where |f| is smaller.  xtol <= 0 is
\* rejected with ValueError.
BrentqRoots(a, b, xtol) ==
    LET lo == IF a <= b THEN a ELSE b
        hi == IF a <= b THEN b ELSE a
    IN  IF xtol <= 0 THEN {}
        ELSE {x \in lo..hi :
                \/ Equation(x) = 0
                \/ \E xb \in lo..hi :
                      /\ Abs(xb - x) < xtol
                      /\ Equation(x) * Equation(xb) < 0
                      /\ Abs(Equation(x)) <= Abs(Equation(xb))}

\* ---- the call

Init ==
    /\ func1 \in Func1Set
    /\ func2 \in Func2Set
    /\ domain \in Points \X Points
    /\ num_points \in -1..MaxPoints
    /\ tol \in 0..MaxTol
    /\ x_grid = <<>>
    /\ f_values = <<>>
    /\ intersections = <<>>
    /\ i = 1
    /\ brentq_calls = 0
    /\ pc = "call"
    /\ exc = "none"

\* Lines 40-43: np.linspace raises ValueError for a negative num.
BuildGridError ==
    /\ pc = "call"
    /\ num_points < 0
    /\ pc' = "raised"
    /\ exc' = "ValueError"
    /\ UNCHANGED <<func1, func2, domain, num_points, tol, x_grid, f_values,
                   intersections, i, brentq_calls>>

\* Lines 40-43: the grid is built, whatever the order of xmin and xmax.
BuildGrid ==
    /\ pc = "call"
    /\ num_points >= 0
    /\ x_grid' = Linspace(xmin, xmax, num_points)
    /\ pc' = IF num_points = 0 THEN "pairs" ELSE "eval"
    /\ UNCHANGED <<func1, func2, domain, num_points, tol, f_values,
                   intersections, i, brentq_calls, exc>>

AfterEval == IF Len(f_values) + 1 = Len(x_grid) THEN "pairs" ELSE "eval"

\* Lines 46-52, one grid point: _equation returns.
EvalOk ==
    /\ pc = "eval"
    /\ f_values' = Append(f_values, Equation(x_grid[Len(f_values) + 1]))
    /\ pc' = AfterEval
    /\ UNCHANGED <<func1, func2, domain, num_points, tol, x_grid,
                   intersections, i, brentq_calls, exc>>

\* Lines 46-52, one grid point: func1 or func2 raises, _equation raises
\* ValueError, the loop records np.nan.
EvalFail ==
    /\ pc = "eval"
    /\ f_values' = Append(f_values, NaN)
    /\ pc' = AfterEval
    /\ UNCHANGED <<func1, func2, domain, num_points, tol, x_grid,
                   intersections, i, brentq_calls, exc>>

InPairLoop == pc = "pairs" /\ i <= Len(x_grid) - 1

\* The nan test looking at the left value of the pair only.
PairHasNanLeftOnly == IsNan(f_values[i])

\* Line 57.
PairHasNan == IsNan(f_values[i]) \/ IsNan(f_values[i + 1])

\* The direct-hit branch never taken: the hit is computed but not reported.
DirectHitIgnored == FALSE

\* The direct-hit test reading the right value of the pair.
DirectHitOnRight == f_values[i + 1] = 0

\* Line 59.
IsDirectHit == f_values[i] = 0

\* The sign test accepting a zero product.
BracketOrZero == f_values[i] * f_values[i + 1] <= 0

\* Line 62.
IsBracket == f_values[i] * f_values[i + 1] < 0

\* Lines 72-75 for a candidate x_root: a duplicate is dropped; otherwise
\* func1(x_root) is called outside any try, so it appends or raises.
Accept(x_root) ==
    IF IsDuplicate(x_root, intersections, tol)
    THEN /\ i' = i + 1
         /\ UNCHANGED <<intersections, pc, exc>>
    ELSE \/ /\ intersections' = Append(intersections, <<x_root, func1[x_root]>>)
            /\ i' = i + 1
            /\ UNCHANGED <<pc, exc>>
         \/ /\ pc' = "raised"
            /\ exc' = "Exception"
            /\ UNCHANGED <<intersections, i>>

\* Lines 57-58.
PairNan ==
    /\ InPairLoop
    /\ PairHasNan
    /\ i' = i + 1
    /\ UNCHANGED <<func1, func2, domain, num_points, tol, x_grid, f_values,
                   intersections, brentq_calls, pc, exc>>

\* Lines 59-61, then 72-75.
PairDirectHit ==
    /\ InPairLoop
    /\ ~PairHasNan
    /\ IsDirectHit
    /\ Accept(x_grid[i])
    /\ UNCHANGED <<func1, func2, domain, num_points, tol, x_grid, f_values,
                   brentq_calls>>

\* Lines 62-65, then 72-75: brentq returns.
PairBracket ==
    /\ InPairLoop
    /\ ~PairHasNan
    /\ ~IsDirectHit
    /\ IsBracket
    /\ brentq_calls' = brentq_calls + 1
    /\ \E x_root \in BrentqRoots(x_grid[i], x_grid[i + 1], tol) : Accept(x_root)
    /\ UNCHANGED <<func1, func2, domain, num_points, tol, x_grid, f_values>>

\* Lines 62-68: brentq raises (xtol <= 0, _equation raising inside it, no
\* convergence); the interval is skipped.
PairBrentqFail ==
    /\ InPairLoop
    /\ ~PairHasNan
    /\ ~IsDirectHit
    /\ IsBracket
    /\ brentq_calls' = brentq_calls + 1
    /\ i' = i + 1
    /\ UNCHANGED <<func1, func2, domain, num_points, tol, x_grid, f_values,
                   intersections, pc, exc>>

\* Lines 69-70.
PairNoRoot ==
    /\ InPairLoop
    /\ ~PairHasNan
    /\ ~IsDirectHit
    /\ ~IsBracket
    /\ i' = i + 1
    /\ UNCHANGED <<func1, func2, domain, num_points, tol, x_grid, f_values,
                   intersections, brentq_calls, pc, exc>>

\* Line 77.
Return ==
    /\ pc = "pairs"
    /\ i > Len(x_grid) - 1
    /\ pc' = "done"
    /\ UNCHANGED <<func1, func2, domain, num_points, tol, x_grid, f_values,
                   intersections, i, brentq_calls, exc>>

Next ==
    \/ BuildGridError
    \/ BuildGrid
    \/ EvalOk
    \/ EvalFail
    \/ PairNan
    \/ PairDirectHit
    \/ PairBracket
    \/ PairBrentqFail
    \/ PairNoRoot
    \/ Return

Spec == Init /\ [][Next]_vars

\* ---- properties

NumPairs == IF Len(x_grid) = 0 THEN 0 ELSE Len(x_grid) - 1

Xs == {intersections[k][1] : k \in 1..Len(intersections)}

AllEvaluated == pc \in {"pairs", "done"}

PairDefined(j) == f_values[j] # NaN /\ f_values[j + 1] # NaN

\* C1: with tol > 0, no two entries at distinct positions of the accumulated
\* list have abscissae closer than tol; this holds in every state of the pair
\* loop and for the returned list.
C1_NoNearDuplicates ==
    tol > 0 =>
        \A j, k \in 1..Len(intersections) :
            j # k => Abs(intersections[j][1] - intersections[k][1]) >= tol

\* C1 witness: a call with tol > 0 has returned a root and has dropped a
\* direct hit on another grid point as its duplicate.
C1_Witness ==
    /\ pc = "done"
    /\ tol > 0
    /\ Len(intersections) >= 1
    /\ \E j \in 1..NumPairs :
          PairDefined(j) /\ f_values[j] = 0 /\ x_grid[j] \notin Xs

\* C2: the returned list is strictly increasing in x (stated for tol > 0, the
\* tolerance the specification allows).
C2_SortedByX ==
    (pc = "done" /\ tol > 0) =>
        \A j, k \in 1..Len(intersections) :
            j < k => intersections[j][1] < intersections[k][1]

\* C3: a call with xmin >= xmax (and an acceptable num_points) fails with
\* InvalidDomainError before any grid point is evaluated, and returns no list.
C3_InvalidDomainRejected ==
    (xmin >= xmax /\ num_points >= 2 /\ pc # "call") =>
        (pc = "raised" /\ exc = "InvalidDomainError" /\ f_values = <<>>)

\* C4: a call with num_points 0 or 1 fails with InvalidParameterError and
\* returns no list.
C4_TooFewPointsRejected ==
    (num_points \in 0..1 /\ pc # "call") =>
        (pc = "raised" /\ exc = "InvalidParameterError")

\* The difference was evaluated at every grid point and is exactly zero there,
\* for a valid domain and num_points >= 2.
IdenticallyZero ==
    /\ AllEvaluated
    /\ xmin < xmax
    /\ num_points >= 2
    /\ \A k \in 1..Len(f_values) : f_values[k] = 0

\* C5 as stated: when func1 and func2 are equal at every point, so that the
\* difference is exactly zero at every grid point, the scan returns an empty
\* list (for a valid domain, num_points >= 2 and tol > 0).
C5_IdenticalReturnsEmpty ==
    (/\ pc = "done"
     /\ IdenticallyZero
     /\ tol > 0
     /\ \A x \in Points : func1[x] = func2[x]) => intersections = <<>>

\* C5 amended: when the difference is exactly zero at every grid point, the
\* solver is never invoked and a call that returns returns a non-empty list:
\* its first entry is (grid[0], func1(grid[0])), every entry is a grid point
\* other than the last with func1's value there, and every grid point other
\* than the last is in the list or within tol of an entry.
C5_IdenticalReturnsGridPoints ==
    (pc = "done" /\ IdenticallyZero) =>
        /\ brentq_calls = 0
        /\ Len(intersections) >= 1
        /\ intersections[1] = <<x_grid[1], func1[x_grid[1]]>>
        /\ \A k \in 1..Len(intersections) :
              \E j \in 1..NumPairs :
                  intersections[k] = <<x_grid[j], func1[x_grid[j]]>>
        /\ \A j \in 1..NumPairs :
              \E x \in Xs : x = x_grid[j] \/ Abs(x - x_grid[j]) < tol

\* C5 witness: such a call has returned two grid points.
C5_Witness ==
    pc = "done" /\ IdenticallyZero /\ Len(intersections) >= 2

\* C6: with tol > 0, every returned (x, y) has |func1(x) - func2(x)| < tol.
C6_ResidualWithinTol ==
    (pc = "done" /\ tol > 0) =>
        \A k \in 1..Len(intersections) :
            Abs(func1[intersections[k][1]] - func2[intersections[k][1]]) < tol

\* C7: for a valid domain and num_points >= 2, no failure on one candidate
\* makes the call raise.
C7_NoCandidateFailureAborts ==
    (xmin < xmax /\ num_points >= 2) => pc # "raised"

\* What one iteration of the pair loop may do to the list, from the two
\* values of its pair, the grid and the list so far.
LocalOutcome ==
    IF f_values[i] = 0
    THEN intersections' \in
            {intersections, Append(intersections, <<x_grid[i], func1[x_grid[i]]>>)}
    ELSE IF f_values[i] * f_values[i + 1] < 0
    THEN \/ intersections' = intersections
         \/ \E x \in Points :
               /\ (x_grid[i] <= x /\ x <= x_grid[i + 1])
                  \/ (x_grid[i + 1] <= x /\ x <= x_grid[i])
               /\ intersections' = Append(intersections, <<x, func1[x]>>)
    ELSE intersections' = intersections

\* C8: a failed evaluation at a grid point records an undefined value and the
\* scan goes on to the next point; a pair with an undefined value adds no
\* root, whatever its other value; a pair with two defined values is
\* processed from its own two values alone.
C8_UndefinedPointsSkipped ==
    [][/\ pc = "eval" =>
            /\ pc' \in {"eval", "pairs"}
            /\ Len(f_values') = Len(f_values) + 1
            /\ exc' = "none"
       /\ (pc = "pairs" /\ i <= Len(x_grid) - 1) =>
            IF f_values[i] = NaN \/ f_values[i + 1] = NaN
            THEN intersections' = intersections /\ i' = i + 1 /\ pc' = "pairs"
            ELSE LocalOutcome]_vars

\* C8 witness: a call has returned with a pair (0, undefined) that added no
\* root and a root from a pair with both values defined.
C8_Witness ==
    /\ pc = "done"
    /\ Len(intersections) >= 1
    /\ \E j \in 1..NumPairs :
          f_values[j] = 0 /\ f_values[j + 1] = NaN /\ x_grid[j] \notin Xs

\* The pairs already processed.
Processed == {j \in 1..NumPairs : j < i}

\* C9: every processed pair with two defined values and value[i] exactly zero
\* has (grid[i], func1(grid[i])) in the list, unless a root within tol of
\* grid[i] is in the list; the solver has been invoked only for the processed
\* pairs of strictly opposite signs.
C9_DirectHitsReported ==
    (pc \in {"pairs", "done"}) =>
        /\ \A j \in Processed :
              (PairDefined(j) /\ f_values[j] = 0) =>
                  \/ \E k \in 1..Len(intersections) :
                        intersections[k] = <<x_grid[j], func1[x_grid[j]]>>
                  \/ \E x \in Xs : Abs(x - x_grid[j]) < tol
        /\ brentq_calls =
              Cardinality({j \in Processed :
                              /\ PairDefined(j)
                              /\ f_values[j] # 0
                              /\ f_values[j] * f_values[j + 1] < 0})

\* C9 witness: a call has returned the direct hit of its second pair, after a
\* first pair with no root, without invoking the solver.
C9_Witness ==
    /\ pc = "done"
    /\ brentq_calls = 0
    /\ NumPairs >= 2
    /\ PairDefined(1)
    /\ f_values[1] # 0
    /\ f_values[2] = 0
    /\ f_values[3] # NaN
    /\ intersections = <<<<x_grid[2], func1[x_grid[2]]>>>>

\* The difference is zero at the last grid point and non-zero with one sign
\* at every other grid point.
ZeroOnlyAtLast ==
    /\ AllEvaluated
    /\ num_points >= 1
    /\ f_values[num_points] = 0
    /\ \A k \in 1..(num_points - 1) : f_values[k] # NaN /\ f_values[k] # 0
    /\ \A j, k \in 1..(num_points - 1) : f_values[j] * f_values[k] > 0

\* C10: a zero of the difference at the last grid point is not reported: if
\* the difference is non-zero with one sign at every other grid point the
\* list stays empty, and for xmin < xmax no entry has x = xmax when the
\* difference is zero there.
C10_LastPointZeroUnreported ==
    /\ ZeroOnlyAtLast => (intersections = <<>> /\ brentq_calls = 0)
    /\ (AllEvaluated /\ xmin < xmax /\ num_points >= 1 /\ f_values[num_points] = 0)
          => xmax \notin Xs

\* C10 witness: a call over three grid points has returned with the
\* difference zero at xmax only.
C10_Witness ==
    pc = "done" /\ ZeroOnlyAtLast /\ num_points >= 3 /\ tol > 0
====
